---------------------------- MODULE Spec2Model ----------------------------
(***************************************************************************)
(* A model of package bind (ugent-library/bind): decoding of HTTP request  *)
(* data (path variables, headers, query parameters, body) into a           *)
(* destination value.                                                      *)
(*                                                                         *)
(* A string is a sequence of one-character strings.  A url.Values /        *)
(* http.Header is a function from a finite set of keys to sequences of     *)
(* strings; a key that is absent is outside the function's domain.         *)
(* The decoders of go-playground/form, encoding/json and encoding/xml are  *)
(* outside this package: what is modelled of them is which decoder is      *)
(* called, with which values, and that each may return an error or nil.    *)
(***************************************************************************)
EXTENDS Integers, Sequences, FiniteSets, TLC

VARIABLES PathValueFunc, pc, call, v, err, pathCalls, trace, decoded

vars == <<PathValueFunc, pc, call, v, err, pathCalls, trace, decoded>>

(***************************************************************************)
(* Bounds of the model.                                                    *)
(***************************************************************************)
MaxStrLen == 2      \* longest string value enumerated in a url.Values
MaxVals == 2        \* longest value list enumerated under one key
MaxFields == 3      \* most fields enumerated in one struct
MaxDepth == 1       \* deepest nesting of embedded structs enumerated

Nil == "nil"

(***************************************************************************)
(* Strings.                                                                *)
(***************************************************************************)
WhiteSpace == {" ", "\t", "\n", "\r"}

RECURSIVE TrimLeft(_)
TrimLeft(s) ==
    IF s = <<>> THEN s
    ELSE IF Head(s) \in WhiteSpace THEN TrimLeft(Tail(s)) ELSE s

RECURSIVE TrimRight(_)
TrimRight(s) ==
    IF s = <<>> THEN s
    ELSE IF s[Len(s)] \in WhiteSpace THEN TrimRight(SubSeq(s, 1, Len(s) - 1)) ELSE s

\* strings.TrimSpace
TrimSpace(s) == TrimRight(TrimLeft(s))

\* HasPrefix as a comparison of the whole string
HasPrefix_Exact(s, prefix) == s = prefix

\* strings.HasPrefix
HasPrefix(s, prefix) ==
    /\ Len(s) >= Len(prefix)
    /\ SubSeq(s, 1, Len(prefix)) = prefix

RECURSIVE SeqsUpTo(_, _)
SeqsUpTo(S, n) ==
    IF n = 0 THEN {<<>>}
    ELSE LET shorter == SeqsUpTo(S, n - 1)
         IN  shorter \cup {Append(s, x) : s \in shorter, x \in S}

(***************************************************************************)
(* Flags.                                                                  *)
(***************************************************************************)
Vacuum == 0

hasFlag(flags, flag) == \E i \in 1..Len(flags) : flags[i] = flag

(***************************************************************************)
(* vacuum: trims every value, drops the values that are empty after        *)
(* trimming, and drops the keys that are left without values.              *)
(***************************************************************************)
\* vacuumVals dropping the values that are empty after trimming, but keeping
\* the others as they came
vacuumVals_NoTrim(vals) ==
    LET NotEmpty(val) == TrimSpace(val) # <<>>
    IN  SelectSeq(vals, NotEmpty)

vacuumVals(vals) ==
    LET trimmed == [i \in 1..Len(vals) |-> TrimSpace(vals[i])]
        NotEmpty(val) == val # <<>>
    IN  SelectSeq(trimmed, NotEmpty)

vacuum(values) ==
    LET keep == {key \in DOMAIN values : Len(vacuumVals(values[key])) > 0}
    IN  [key \in keep |-> vacuumVals(values[key])]

(***************************************************************************)
(* The Decode* functions.  derr is what the decoder of go-playground/form  *)
(* returns.  The result records the values handed to the decoder.          *)
(***************************************************************************)
DecodeWith(decoder, vals, flags, derr) ==
    [decoded |-> <<[decoder |-> decoder,
                    vals |-> IF hasFlag(flags, Vacuum) THEN vacuum(vals) ELSE vals]>>,
     err |-> derr]

DecodeQuery(vals, flags, derr) == DecodeWith("queryDecoder", vals, flags, derr)

DecodeForm(vals, flags, derr) == DecodeWith("formDecoder", vals, flags, derr)

DecodeHeader(header, flags, derr) == DecodeWith("headerDecoder", header, flags, derr)

(***************************************************************************)
(* Requests.  Form is the value r.Form holds once r.ParseForm() has run.   *)
(***************************************************************************)
ContentType == "Content-Type"

HeaderGet(header, key) ==
    IF key \in DOMAIN header /\ Len(header[key]) > 0 THEN header[key][1] ELSE <<>>

ApplicationJSON == <<"a","p","p","l","i","c","a","t","i","o","n","/","j","s","o","n">>
ApplicationXML == <<"a","p","p","l","i","c","a","t","i","o","n","/","x","m","l">>
TextXML == <<"t","e","x","t","/","x","m","l">>
FormURLEncoded == <<"a","p","p","l","i","c","a","t","i","o","n","/","x","-","w","w","w","-",
                    "f","o","r","m","-","u","r","l","e","n","c","o","d","e","d">>
MultipartFormData == <<"m","u","l","t","i","p","a","r","t","/","f","o","r","m","-","d","a","t","a">>

Query(r, flags, derr) == DecodeQuery(r.Query, flags, derr)

Header(r, flags, derr) == DecodeHeader(r.Header, flags, derr)

Body(r, flags, derr) ==
    LET ct == HeaderGet(r.Header, ContentType)
        none == [decoded |-> <<>>, err |-> Nil]
    IN  IF r.ContentLength = 0 THEN none
        ELSE IF HasPrefix(ct, ApplicationJSON)
             THEN [decoded |-> <<[decoder |-> "json", vals |-> <<>>]>>, err |-> derr]
        ELSE IF HasPrefix(ct, ApplicationXML) \/ HasPrefix(ct, TextXML)
             THEN [decoded |-> <<[decoder |-> "xml", vals |-> <<>>]>>, err |-> derr]
        ELSE IF HasPrefix(ct, FormURLEncoded) \/ HasPrefix(ct, MultipartFormData)
             THEN DecodeForm(r.Form, flags, derr)
        ELSE none

(***************************************************************************)
(* strconv.  A parse result is [val, err].  The strings parsed in the      *)
(* model are short strings over digits, signs, "." and letters, with no    *)
(* fraction digit other than 0: on those ParseFloat accepts exactly an     *)
(* optional sign and digits with at most one ".", and yields the whole     *)
(* part; no number reaches the 32 or 64 bit limits.                        *)
(***************************************************************************)
DigitVal ==
    ("0" :> 0) @@ ("1" :> 1) @@ ("2" :> 2) @@ ("3" :> 3) @@ ("4" :> 4) @@
    ("5" :> 5) @@ ("6" :> 6) @@ ("7" :> 7) @@ ("8" :> 8) @@ ("9" :> 9)

IsDigits(s) == s # <<>> /\ \A i \in 1..Len(s) : s[i] \in DOMAIN DigitVal

RECURSIVE Decimal(_)
Decimal(s) ==
    IF s = <<>> THEN 0
    ELSE Decimal(SubSeq(s, 1, Len(s) - 1)) * 10 + DigitVal[s[Len(s)]]

BitsOf(bitSize) == IF bitSize = 0 THEN 64 ELSE bitSize

ParseInt(s, bitSize) ==
    LET signed == s # <<>> /\ s[1] \in {"+", "-"}
        digits == IF signed THEN Tail(s) ELSE s
        n == IF s[1] = "-" THEN 0 - Decimal(digits) ELSE Decimal(digits)
        bits == BitsOf(bitSize)
    IN  IF ~IsDigits(digits) THEN [val |-> 0, err |-> "ErrSyntax"]
        ELSE IF bits < 32 /\ (n < 0 - 2^(bits - 1) \/ n > 2^(bits - 1) - 1)
             THEN [val |-> 0, err |-> "ErrRange"]
        ELSE [val |-> n, err |-> Nil]

ParseUint(s, bitSize) ==
    LET bits == BitsOf(bitSize)
    IN  IF ~IsDigits(s) THEN [val |-> 0, err |-> "ErrSyntax"]
        ELSE IF bits < 32 /\ Decimal(s) > 2^bits - 1
             THEN [val |-> 0, err |-> "ErrRange"]
        ELSE [val |-> Decimal(s), err |-> Nil]

ParseBool(s) ==
    IF s \in {<<"1">>, <<"t">>, <<"T">>, <<"T","R","U","E">>, <<"t","r","u","e">>,
              <<"T","r","u","e">>}
    THEN [val |-> TRUE, err |-> Nil]
    ELSE IF s \in {<<"0">>, <<"f">>, <<"F">>, <<"F","A","L","S","E">>,
                   <<"f","a","l","s","e">>, <<"F","a","l","s","e">>}
    THEN [val |-> FALSE, err |-> Nil]
    ELSE [val |-> FALSE, err |-> "ErrSyntax"]

\* the index of the first "." of s, or Len(s) + 1
RECURSIVE DotAt(_, _)
DotAt(s, i) == IF i > Len(s) \/ s[i] = "." THEN i ELSE DotAt(s, i + 1)

ParseFloat(s, bitSize) ==
    LET signed == s # <<>> /\ s[1] \in {"+", "-"}
        mantissa == IF signed THEN Tail(s) ELSE s
        dot == DotAt(mantissa, 1)
        whole == SubSeq(mantissa, 1, dot - 1)
        fraction == SubSeq(mantissa, dot + 1, Len(mantissa))
        wellFormed == /\ whole \o fraction # <<>>
                      /\ \A i \in 1..Len(whole) : whole[i] \in DOMAIN DigitVal
                      /\ \A i \in 1..Len(fraction) : fraction[i] = "0"
    IN  IF ~wellFormed THEN [val |-> 0, err |-> "ErrSyntax"]
        ELSE [val |-> IF s[1] = "-" THEN 0 - Decimal(whole) ELSE Decimal(whole),
              err |-> Nil]

(***************************************************************************)
(* Values (reflect.Value).  A scalar is [kind, num, str, bool], holding    *)
(* its value in num (the integer and float kinds), str (String) or bool    *)
(* (Bool); a pointer is [kind |-> "Ptr", isNil, elem], where elem is the   *)
(* value pointed to or, for a nil pointer, the zero value of the element   *)
(* type; a struct is [kind |-> "Struct", fields], each field               *)
(* [Name, Anonymous, Tag, val].                                            *)
(* The setters return [field, err]: the field after the call and the       *)
(* error returned.                                                         *)
(***************************************************************************)
\* "if err == nil { field.SetX(parsed) }; return err", p being the parse result
SetNum(field, p) ==
    [field |-> IF p.err = Nil THEN [field EXCEPT !.num = p.val] ELSE field, err |-> p.err]

SetBool(field, p) ==
    [field |-> IF p.err = Nil THEN [field EXCEPT !.bool = p.val] ELSE field, err |-> p.err]

setIntField(val, bitSize, field) ==
    SetNum(field, ParseInt(IF val = <<>> THEN <<"0">> ELSE val, bitSize))

setUintField(val, bitSize, field) ==
    SetNum(field, ParseUint(IF val = <<>> THEN <<"0">> ELSE val, bitSize))

setBoolField(val, field) ==
    SetBool(field, ParseBool(IF val = <<>> THEN <<"f","a","l","s","e">> ELSE val))

setFloatField(val, bitSize, field) ==
    SetNum(field, ParseFloat(IF val = <<>> THEN <<"0",".","0">> ELSE val, bitSize))

\* setPtrField storing the new value in a nil pointer whatever the error
setPtrField_AlwaysSet(field, r) ==
    [field |-> [field EXCEPT !.isNil = FALSE, !.elem = r.field], err |-> r.err]

\* the case reflect.Ptr of setField, given the recursive call's result on
\* the element (a fresh zero value when the pointer is nil)
setPtrField(field, r) ==
    IF field.isNil
    THEN [field |-> IF r.err = Nil
                    THEN [field EXCEPT !.isNil = FALSE, !.elem = r.field]
                    ELSE field,
          err |-> r.err]
    ELSE [field |-> [field EXCEPT !.elem = r.field], err |-> r.err]

RECURSIVE setField(_, _, _)
setField(kind, strVal, field) ==
    CASE kind = "Ptr" ->
            setPtrField(field, setField(field.elem.kind, strVal, field.elem))
      [] kind = "Int" -> setIntField(strVal, 0, field)
      [] kind = "Int8" -> setIntField(strVal, 8, field)
      [] kind = "Int16" -> setIntField(strVal, 16, field)
      [] kind = "Int32" -> setIntField(strVal, 32, field)
      [] kind = "Int64" -> setIntField(strVal, 64, field)
      [] kind = "Uint" -> setUintField(strVal, 0, field)
      [] kind = "Uint8" -> setUintField(strVal, 8, field)
      [] kind = "Uint16" -> setUintField(strVal, 16, field)
      [] kind = "Uint32" -> setUintField(strVal, 32, field)
      [] kind = "Uint64" -> setUintField(strVal, 64, field)
      [] kind = "Bool" -> setBoolField(strVal, field)
      [] kind = "Float32" -> setFloatField(strVal, 32, field)
      [] kind = "Float64" -> setFloatField(strVal, 64, field)
      [] kind = "String" -> [field |-> [field EXCEPT !.str = strVal], err |-> Nil]
      [] OTHER -> [field |-> field, err |-> "unknown type"]

(***************************************************************************)
(* setPath and Path.  The results are [val, err, calls]: the destination   *)
(* after the call, the error returned, and the keys PathValueFunc was      *)
(* called with, in order.  pvf is PathValueFunc: [isNil, fn].              *)
(***************************************************************************)
RECURSIVE setPath(_, _)
RECURSIVE setPathFields(_, _, _, _)

\* the loop of setPath after the recursive call on the anonymous field i
\* returned r: the error is not looked at, the loop continues
AfterAnonymous(pvf, s, i, calls, r) ==
    setPathFields(pvf, [s EXCEPT !.fields[i].val = r.val], i + 1, calls \o r.calls)

\* the loop of setPath after setField on the tagged field i returned r
AfterSetField(pvf, s, i, calls, r) ==
    IF r.err # Nil
    THEN [val |-> [s EXCEPT !.fields[i].val = r.field], err |-> r.err, calls |-> calls]
    ELSE setPathFields(pvf, [s EXCEPT !.fields[i].val = r.field], i + 1, calls)

\* the loop of setPath over the fields i.. of the struct s
setPathFields(pvf, s, i, calls) ==
    IF i > Len(s.fields) THEN [val |-> s, err |-> Nil, calls |-> calls]
    ELSE IF s.fields[i].Anonymous
         THEN AfterAnonymous(pvf, s, i, calls, setPath(pvf, s.fields[i].val))
    ELSE IF s.fields[i].Tag # "" /\ s.fields[i].Tag # "-"
         THEN AfterSetField(pvf, s, i, Append(calls, s.fields[i].Tag),
                            setField(s.fields[i].val.kind, pvf.fn[s.fields[i].Tag],
                                     s.fields[i].val))
    ELSE setPathFields(pvf, s, i + 1, calls)

\* setPath's result for val, r being the result of its loop over the struct
SetPathResult(val, r) ==
    [val |-> IF val.kind = "Ptr" THEN [val EXCEPT !.elem = r.val] ELSE r.val,
     err |-> r.err, calls |-> r.calls]

setPath(pvf, val) ==
    IF val.kind = "Ptr" /\ val.isNil THEN [val |-> val, err |-> Nil, calls |-> <<>>]
    ELSE IF (IF val.kind = "Ptr" THEN val.elem ELSE val).kind # "Struct"
         THEN [val |-> val, err |-> Nil, calls |-> <<>>]
    ELSE SetPathResult(val, setPathFields(pvf, IF val.kind = "Ptr" THEN val.elem ELSE val,
                                          1, <<>>))

Path(pvf, dst) ==
    IF pvf.isNil THEN [val |-> dst, err |-> "PathValueFunc not set", calls |-> <<>>]
    ELSE IF dst.kind # "Ptr" \/ dst.isNil
         THEN [val |-> dst, err |-> "InvalidDecoderError", calls |-> <<>>]
    ELSE setPath(pvf, dst)

(***************************************************************************)
(* Request.  herr is what the header decoder returns, berr what the query  *)
(* or body decoder returns.  The result adds to Path's the stages run, in  *)
(* order, each with the error it returned, and the decoder calls made.     *)
(***************************************************************************)
\* IsQueryMethod without HEAD
IsQueryMethod_NoHead(method) == method = "GET" \/ method = "DELETE"

IsQueryMethod(method) == method = "GET" \/ method = "HEAD" \/ method = "DELETE"

\* Request, given the results of the calls it may make: p of Path (nil and no
\* effect when PathValueFunc is nil), h of Header, q of Query and b of Body
RequestStages(pathSet, method, p, h, q, b) ==
    LET pathStage == IF pathSet THEN <<[stage |-> "Path", err |-> p.err]>> ELSE <<>>
        headerStage == <<[stage |-> "Header", err |-> h.err]>>
    IN  IF p.err # Nil
        THEN [val |-> p.val, err |-> p.err, calls |-> p.calls,
              trace |-> pathStage, decoded |-> <<>>]
        ELSE IF h.err # Nil
        THEN [val |-> p.val, err |-> h.err, calls |-> p.calls,
              trace |-> pathStage \o headerStage, decoded |-> h.decoded]
        ELSE IF IsQueryMethod(method)
        THEN [val |-> p.val, err |-> q.err, calls |-> p.calls,
              trace |-> pathStage \o headerStage \o <<[stage |-> "Query", err |-> q.err]>>,
              decoded |-> h.decoded \o q.decoded]
        ELSE [val |-> p.val, err |-> b.err, calls |-> p.calls,
              trace |-> pathStage \o headerStage \o <<[stage |-> "Body", err |-> b.err]>>,
              decoded |-> h.decoded \o b.decoded]

\* Request calling Path whether PathValueFunc is set or not
Request_Unguarded(pvf, r, dst, flags, herr, berr) ==
    RequestStages(TRUE, r.Method, Path(pvf, dst),
                  Header(r, flags, herr), Query(r, flags, berr), Body(r, flags, berr))

Request(pvf, r, dst, flags, herr, berr) ==
    RequestStages(~pvf.isNil, r.Method,
                  IF ~pvf.isNil THEN Path(pvf, dst)
                  ELSE [val |-> dst, err |-> Nil, calls |-> <<>>],
                  Header(r, flags, herr), Query(r, flags, berr), Body(r, flags, berr))

(***************************************************************************)
(* The inputs enumerated.                                                  *)
(***************************************************************************)
Strs == SeqsUpTo({" ", "a"}, MaxStrLen)

ValueLists == SeqsUpTo(Strs, MaxVals)

EmptyValues == [key \in {} |-> <<>>]

\* url.Values with key "k" mapped to any value list, alone or next to a second
\* key "only-space" that vacuum drops or a key "other" that it keeps
Values ==
    {EmptyValues}
    \cup {[key \in {"k"} |-> vals] : vals \in ValueLists}
    \cup {[key \in {"k", "only-space"} |-> IF key = "k" THEN vals ELSE <<<<" ">>>>] :
            vals \in ValueLists}
    \cup {[key \in {"k", "other"} |-> IF key = "k" THEN vals ELSE <<<<"a">>, <<>>>>] :
            vals \in ValueLists}

SmallValues ==
    {EmptyValues, [key \in {"k"} |-> <<<<" ", "a">>, <<" ">>>>]}

CharsetUTF8 == <<";"," ","c","h","a","r","s","e","t","=","u","t","f","-","8">>

\* Content-Type values: the five prefixes, two of them with parameters, and
\* values that match no prefix
ContentTypes ==
    {ApplicationJSON, ApplicationXML, TextXML, FormURLEncoded, MultipartFormData,
     ApplicationJSON \o CharsetUTF8, FormURLEncoded \o CharsetUTF8,
     SubSeq(ApplicationJSON, 1, Len(ApplicationJSON) - 1),
     <<" ">> \o ApplicationJSON,
     <<"A">> \o Tail(ApplicationXML),
     <<"t","e","x","t","/","p","l","a","i","n">>,
     <<>>}

ContentLengths == {0, 0 - 1, 10}

Flags == {<<>>, <<Vacuum>>, <<1>>, <<1, Vacuum>>}

DecoderErrs == {Nil, "DecodeError"}

NewRequest(method, length, header, query, form) ==
    [Method |-> method, ContentLength |-> length, Header |-> header,
     Query |-> query, Form |-> form]

NoRequest == NewRequest("", 0, EmptyValues, EmptyValues, EmptyValues)

WithContentType(ct) == [key \in {ContentType} |-> <<ct>>]

HeaderRequests == {NewRequest("GET", 0, h, EmptyValues, EmptyValues) : h \in Values}

QueryRequests == {NewRequest("GET", 0, EmptyValues, q, EmptyValues) : q \in Values}

BodyRequests ==
    {NewRequest("POST", 10, WithContentType(ct), EmptyValues, f) :
        ct \in {FormURLEncoded, MultipartFormData}, f \in Values}
    \cup {NewRequest("POST", n, WithContentType(ct), EmptyValues, f) :
            n \in ContentLengths, ct \in ContentTypes, f \in SmallValues}
    \cup {NewRequest("POST", n, EmptyValues, EmptyValues, f) :
            n \in ContentLengths, f \in SmallValues}

Methods == {"GET", "HEAD", "DELETE", "POST", "PUT", "PATCH", "OPTIONS", "get"}

Requests ==
    {NewRequest(m, n, WithContentType(ct), q, q) :
        m \in Methods, n \in {0, 10}, q \in SmallValues,
        ct \in {ApplicationJSON, TextXML, FormURLEncoded \o CharsetUTF8, <<>>}}

(***************************************************************************)
(* Destinations.                                                           *)
(***************************************************************************)
Zero(kind) == [kind |-> kind, num |-> 0, str |-> <<>>, bool |-> FALSE]

IntValue(n) == [Zero("Int") EXCEPT !.num = n]

StringValue(s) == [Zero("String") EXCEPT !.str = s]

PtrTo(elem) == [kind |-> "Ptr", isNil |-> FALSE, elem |-> elem]

\* a nil pointer whose element type has the zero value zero
NilPtr(zero) == [kind |-> "Ptr", isNil |-> TRUE, elem |-> zero]

Struct(fields) == [kind |-> "Struct", fields |-> fields]

Field(name, tag, val) == [Name |-> name, Anonymous |-> FALSE, Tag |-> tag, val |-> val]

Embedded(name, val) == [Name |-> name, Anonymous |-> TRUE, Tag |-> "", val |-> val]

IntKinds == {"Int", "Int8", "Int16", "Int32", "Int64"}
UintKinds == {"Uint", "Uint8", "Uint16", "Uint32", "Uint64"}
FloatKinds == {"Float32", "Float64"}
ScalarKinds == IntKinds \cup UintKinds \cup FloatKinds \cup {"Bool", "String"}

PathTags == {"id", "n", "neg", "big", "t", "empty"}

\* the path values of two routes
PathValues1 ==
    [k \in PathTags |->
        CASE k = "id" -> <<"1","2","3">>
          [] k = "n" -> <<"x">>
          [] k = "neg" -> <<"-","1">>
          [] k = "big" -> <<"3","0","0">>
          [] k = "t" -> <<"t">>
          [] OTHER -> <<>>]

PathValues2 ==
    [k \in PathTags |->
        CASE k = "id" -> <<"1","2","x">>
          [] k = "n" -> <<"4","5">>
          [] k = "neg" -> <<"+","7">>
          [] k = "big" -> <<"1","2","7">>
          [] k = "t" -> <<"0">>
          [] OTHER -> <<>>]

NilPathValueFunc == [isNil |-> TRUE, fn |-> [k \in PathTags |-> <<>>]]

PathValueFuncs == {[isNil |-> FALSE, fn |-> f] : f \in {PathValues1, PathValues2}}

\* struct{ ID T `path:"id"` }, as in the tests' t1
T1 == Struct(<<Field("ID", "id", Zero("String"))>>)

\* the fields a single-field struct is enumerated with: every scalar kind
\* under every tag, pointers to scalars, and kinds that are no scalars
SingleFields ==
    {Field("F", tag, Zero(kind)) : tag \in PathTags \cup {"", "-"}, kind \in ScalarKinds}
    \cup {Field("F", tag, ptr) :
            tag \in {"id", "n"},
            ptr \in {NilPtr(Zero("Int")), PtrTo(IntValue(7)),
                     NilPtr(Zero("String")), PtrTo(StringValue(<<"a">>)),
                     NilPtr(Zero("Uint8")), NilPtr(NilPtr(Zero("Int"))),
                     NilPtr(T1), PtrTo(T1)}}
    \cup {Field("F", "id", T1), Field("F", "id", Zero("Slice"))}

\* the fields the structs with several fields are built from
Leaves ==
    {Field("ID", "id", Zero("Int")),
     Field("P", "n", NilPtr(Zero("Int"))),
     Field("Q", "id", PtrTo(StringValue(<<"a">>))),
     Field("S", "n", Zero("String"))}

NoDuplicateNames(fields) ==
    \A i, j \in 1..Len(fields) : fields[i].Name = fields[j].Name => i = j

FieldLists(n) == {fs \in SeqsUpTo(Leaves, n) : NoDuplicateNames(fs)}

\* the structs with embedded structs nested at most d deep: an embedded
\* struct, held by value, by pointer or by a nil pointer, between at most one
\* field before and one field after it
RECURSIVE Structs(_)
Structs(d) ==
    IF d = 0 THEN {Struct(fs) : fs \in FieldLists(MaxFields) \ {<<>>}}
    ELSE LET inner == Structs(d - 1)
             embedded == {Embedded("E", s) : s \in inner}
                         \cup {Embedded("E", PtrTo(s)) : s \in inner}
                         \cup {Embedded("E", NilPtr(T1))}
         IN  inner \cup {Struct(pre \o <<e>> \o post) :
                            pre \in FieldLists(1), post \in FieldLists(1), e \in embedded}

PathDestinations ==
    {PtrTo(s) : s \in {st \in Structs(MaxDepth) : NoDuplicateNames(st.fields)}}
    \cup {PtrTo(Struct(<<f>>)) : f \in SingleFields}
    \cup {Zero("String"), T1, NilPtr(T1), PtrTo(Zero("String")), PtrTo(Zero("Int")),
          PtrTo(PtrTo(T1))}

RequestDestinations ==
    {PtrTo(T1), Zero("String"),
     PtrTo(Struct(<<Field("ID", "id", Zero("Int")), Field("P", "n", NilPtr(Zero("Int")))>>)),
     PtrTo(Struct(<<Embedded("E", Struct(<<Field("ID", "id", Zero("Int"))>>))>>))}

NoDestination == Zero("String")

(***************************************************************************)
(* The state machine.  A caller sets PathValueFunc, calls one function of  *)
(* the package and gets its result; call holds the arguments of the call,  *)
(* v the destination and err the error after it.                           *)
(***************************************************************************)
NoCall == [op |-> "", r |-> NoRequest, v |-> NoDestination, flags |-> <<>>,
           vals |-> EmptyValues]

Init ==
    /\ PathValueFunc = NilPathValueFunc
    /\ pc = "idle"
    /\ call = NoCall
    /\ v = NoDestination
    /\ err = Nil
    /\ pathCalls = <<>>
    /\ trace = <<>>
    /\ decoded = <<>>

SetPathValueFunc ==
    /\ pc = "idle"
    /\ \E f \in PathValueFuncs : PathValueFunc' = f
    /\ UNCHANGED <<pc, call, v, err, pathCalls, trace, decoded>>

\* the calls that only decode: call.vals is the url.Values the call starts from
CallDecodeQuery ==
    /\ pc = "idle"
    /\ \E vals \in Values, flags \in Flags, derr \in DecoderErrs :
        LET res == DecodeQuery(vals, flags, derr)
        IN  /\ call' = [NoCall EXCEPT !.op = "DecodeQuery", !.r = NoRequest, !.flags = flags,
                                      !.vals = vals]
            /\ decoded' = res.decoded
            /\ err' = res.err
    /\ pc' = "done"
    /\ UNCHANGED <<PathValueFunc, v, pathCalls, trace>>

CallDecodeForm ==
    /\ pc = "idle"
    /\ \E vals \in Values, flags \in Flags, derr \in DecoderErrs :
        LET res == DecodeForm(vals, flags, derr)
        IN  /\ call' = [NoCall EXCEPT !.op = "DecodeForm", !.r = NoRequest, !.flags = flags,
                                      !.vals = vals]
            /\ decoded' = res.decoded
            /\ err' = res.err
    /\ pc' = "done"
    /\ UNCHANGED <<PathValueFunc, v, pathCalls, trace>>

CallDecodeHeader ==
    /\ pc = "idle"
    /\ \E vals \in Values, flags \in Flags, derr \in DecoderErrs :
        LET res == DecodeHeader(vals, flags, derr)
        IN  /\ call' = [NoCall EXCEPT !.op = "DecodeHeader", !.r = NoRequest, !.flags = flags,
                                      !.vals = vals]
            /\ decoded' = res.decoded
            /\ err' = res.err
    /\ pc' = "done"
    /\ UNCHANGED <<PathValueFunc, v, pathCalls, trace>>

CallQuery ==
    /\ pc = "idle"
    /\ \E r \in QueryRequests, flags \in Flags, derr \in DecoderErrs :
        LET res == Query(r, flags, derr)
        IN  /\ call' = [NoCall EXCEPT !.op = "Query", !.r = r, !.flags = flags,
                                      !.vals = r.Query]
            /\ decoded' = res.decoded
            /\ err' = res.err
    /\ pc' = "done"
    /\ UNCHANGED <<PathValueFunc, v, pathCalls, trace>>

CallHeader ==
    /\ pc = "idle"
    /\ \E r \in HeaderRequests, flags \in Flags, derr \in DecoderErrs :
        LET res == Header(r, flags, derr)
        IN  /\ call' = [NoCall EXCEPT !.op = "Header", !.r = r, !.flags = flags,
                                      !.vals = r.Header]
            /\ decoded' = res.decoded
            /\ err' = res.err
    /\ pc' = "done"
    /\ UNCHANGED <<PathValueFunc, v, pathCalls, trace>>

CallBody ==
    /\ pc = "idle"
    /\ \E r \in BodyRequests, flags \in Flags, derr \in DecoderErrs :
        LET res == Body(r, flags, derr)
        IN  /\ call' = [NoCall EXCEPT !.op = "Body", !.r = r, !.flags = flags,
                                      !.vals = r.Form]
            /\ decoded' = res.decoded
            /\ err' = res.err
    /\ pc' = "done"
    /\ UNCHANGED <<PathValueFunc, v, pathCalls, trace>>

CallPath ==
    /\ pc = "idle"
    /\ \E dst \in PathDestinations :
        LET res == Path(PathValueFunc, dst)
        IN  /\ call' = [NoCall EXCEPT !.op = "Path", !.v = dst]
            /\ v' = res.val
            /\ err' = res.err
            /\ pathCalls' = res.calls
    /\ pc' = "done"
    /\ UNCHANGED <<PathValueFunc, trace, decoded>>

CallRequest ==
    /\ pc = "idle"
    /\ \E r \in Requests, dst \in RequestDestinations, flags \in {<<>>, <<Vacuum>>},
          herr \in DecoderErrs, berr \in DecoderErrs :
        LET res == Request(PathValueFunc, r, dst, flags, herr, berr)
        IN  /\ call' = [NoCall EXCEPT !.op = "Request", !.r = r, !.v = dst,
                                      !.flags = flags]
            /\ v' = res.val
            /\ err' = res.err
            /\ pathCalls' = res.calls
            /\ trace' = res.trace
            /\ decoded' = res.decoded
    /\ pc' = "done"
    /\ UNCHANGED PathValueFunc

Return ==
    /\ pc = "done"
    /\ pc' = "idle"
    /\ call' = NoCall
    /\ v' = NoDestination
    /\ err' = Nil
    /\ pathCalls' = <<>>
    /\ trace' = <<>>
    /\ decoded' = <<>>
    /\ UNCHANGED PathValueFunc

\* the decoding functions
NextBind ==
    \/ CallDecodeQuery
    \/ CallDecodeForm
    \/ CallDecodeHeader
    \/ CallQuery
    \/ CallHeader
    \/ CallBody
    \/ Return

SpecBind == Init /\ [][NextBind]_vars

\* Path
NextPath ==
    \/ SetPathValueFunc
    \/ CallPath
    \/ Return

SpecPath == Init /\ [][NextPath]_vars

\* Request
NextRequest ==
    \/ SetPathValueFunc
    \/ CallRequest
    \/ Return

SpecRequest == Init /\ [][NextRequest]_vars

Next == NextBind \/ NextPath \/ NextRequest

Spec == Init /\ [][Next]_vars

(***************************************************************************)
(* Properties.                                                             *)
(***************************************************************************)
Done(op) == pc = "done" /\ call.op = op

ReadOnlyMethods == {"GET", "HEAD", "DELETE"}

StageRan(stage) == \E i \in 1..Len(trace) : trace[i].stage = stage

StageNames == [i \in 1..Len(trace) |-> trace[i].stage]

DecoderRan(decoder) == \E i \in 1..Len(decoded) : decoded[i].decoder = decoder

\* a path or header stage of the call returned an error
FailedBeforeChoice ==
    \E i \in 1..Len(trace) : trace[i].stage \in {"Path", "Header"} /\ trace[i].err # Nil

\* C1, as claimed: for every request and destination, Request performs header
\* binding and then exactly one of query binding and body binding, query
\* binding exactly when the method is GET, HEAD or DELETE.
C1_AlwaysHeaderAndOneMore ==
    Done("Request") =>
        /\ StageRan("Header")
        /\ StageRan("Query") # StageRan("Body")
        /\ StageRan("Query") <=> call.r.Method \in ReadOnlyMethods

\* C1, amended: query binding never runs for a method outside GET, HEAD, DELETE
\* and body binding never runs for a method inside it; and when neither the
\* path stage nor header binding returns an error, Request performs header
\* binding and then exactly one of the two, chosen by the method alone.
C1_MethodChoosesBinding ==
    Done("Request") =>
        /\ StageRan("Query") => call.r.Method \in ReadOnlyMethods
        /\ StageRan("Body") => call.r.Method \notin ReadOnlyMethods
        /\ ~FailedBeforeChoice =>
            /\ StageRan("Header") /\ DecoderRan("headerDecoder")
            /\ StageRan("Query") # StageRan("Body")
            /\ trace[Len(trace)].stage \in {"Query", "Body"}
            /\ trace[Len(trace) - 1].stage = "Header"

C1_Witness ==
    /\ Done("Request")
    /\ ~PathValueFunc.isNil
    /\ call.r.Method = "HEAD"
    /\ call.r.ContentLength # 0
    /\ StageNames = <<"Path", "Header", "Query">>
    /\ ~DecoderRan("json")

\* C8: Request runs path binding (only when PathValueFunc is set), header
\* binding, then query or body binding, in this order; it stops at the first
\* stage that returns an error, which is its result, and no later stage runs
\* or decodes anything; with PathValueFunc unset the path stage is skipped
\* without error and the other stages still run.
C8_StagesInOrderUntilError ==
    Done("Request") =>
        LET expected ==
                (IF PathValueFunc.isNil THEN <<>> ELSE <<"Path">>)
                \o <<"Header">>
                \o <<IF call.r.Method \in ReadOnlyMethods THEN "Query" ELSE "Body">>
            n == Len(trace)
        IN  /\ n >= 1 /\ n <= Len(expected)
            /\ StageNames = SubSeq(expected, 1, n)
            /\ \A i \in 1..(n - 1) : trace[i].err = Nil
            /\ err = trace[n].err
            /\ n < Len(expected) => err # Nil
            /\ trace[n].stage = "Path" => decoded = <<>>
            /\ trace[n].stage = "Header" =>
                    Len(decoded) = 1 /\ decoded[1].decoder = "headerDecoder"
            /\ PathValueFunc.isNil =>
                    /\ trace[1].stage = "Header"
                    /\ pathCalls = <<>>
                    /\ v = call.v

C8_Witness ==
    /\ Done("Request")
    /\ StageNames = <<"Path", "Header">>
    /\ call.r.Method = "POST"
    /\ call.r.ContentLength # 0
    /\ err = "DecodeError"
    /\ pathCalls # <<>>

(***************************************************************************)
(* Body.                                                                   *)
(***************************************************************************)
StartsWith(s, prefix) ==
    /\ Len(prefix) <= Len(s)
    /\ \A i \in 1..Len(prefix) : s[i] = prefix[i]

\* the decoder the Content-Type ct selects, "" when it selects none
SelectedDecoder(ct) ==
    IF StartsWith(ct, ApplicationJSON) THEN "json"
    ELSE IF StartsWith(ct, ApplicationXML) \/ StartsWith(ct, TextXML) THEN "xml"
    ELSE IF StartsWith(ct, FormURLEncoded) \/ StartsWith(ct, MultipartFormData)
         THEN "formDecoder"
    ELSE ""

\* C5: Body chooses its decoder from the prefix of the Content-Type alone, and
\* when ContentLength is 0 or no prefix matches it returns nil, runs no
\* decoder and leaves the destination unchanged.
C5_BodyDispatch ==
    Done("Body") =>
        LET ct == IF ContentType \in DOMAIN call.r.Header
                  THEN call.r.Header[ContentType][1] ELSE <<>>
            selected == IF call.r.ContentLength = 0 THEN "" ELSE SelectedDecoder(ct)
        IN  IF selected = ""
            THEN decoded = <<>> /\ err = Nil /\ v = call.v
            ELSE Len(decoded) = 1 /\ decoded[1].decoder = selected

C5_Witness ==
    /\ Done("Body")
    /\ call.r.ContentLength # 0
    /\ ContentType \in DOMAIN call.r.Header
    /\ call.r.Header[ContentType][1] = SubSeq(ApplicationJSON, 1, Len(ApplicationJSON) - 1)
    /\ decoded = <<>>
    /\ err = Nil

(***************************************************************************)
(* Vacuum.                                                                 *)
(***************************************************************************)
AllSpace(s) == \A i \in 1..Len(s) : s[i] \in WhiteSpace

\* t is s without its leading and trailing white space
IsTrimmed(t, s) ==
    \E i \in 1..(Len(s) + 1), j \in 0..Len(s) :
        /\ t = SubSeq(s, i, j)
        /\ \A p \in 1..(i - 1) : s[p] \in WhiteSpace
        /\ \A p \in (j + 1)..Len(s) : s[p] \in WhiteSpace
        /\ t # <<>> => t[1] \notin WhiteSpace /\ t[Len(t)] \notin WhiteSpace

\* out is the list in with each string trimmed and the strings that are empty
\* after trimming removed, in the original order
IsCleanedList(out, in) ==
    LET kept == {i \in 1..Len(in) : ~AllSpace(in[i])}
    IN  /\ Len(out) = Cardinality(kept)
        /\ \A i \in kept :
            IsTrimmed(out[Cardinality({j \in kept : j <= i})], in[i])

\* out is the cleaned form of the map in
IsCleaned(out, in) ==
    /\ DOMAIN out \subseteq DOMAIN in
    /\ \A key \in DOMAIN in :
        IF \A i \in 1..Len(in[key]) : AllSpace(in[key][i])
        THEN key \notin DOMAIN out
        ELSE key \in DOMAIN out /\ IsCleanedList(out[key], in[key])
    /\ \A key \in DOMAIN out :
        /\ out[key] # <<>>
        /\ \A i \in 1..Len(out[key]) :
            /\ out[key][i] # <<>>
            /\ out[key][i][1] \notin WhiteSpace
            /\ out[key][i][Len(out[key][i])] \notin WhiteSpace

FormDecoders == {"queryDecoder", "formDecoder", "headerDecoder"}

\* C2: with the Vacuum flag, the map handed to the decoder by Header, Query,
\* Body and the Decode* functions is the cleaned form of the input map.
C2_VacuumCleans ==
    (/\ pc = "done"
     /\ call.op \in {"DecodeQuery", "DecodeForm", "DecodeHeader", "Query", "Header", "Body"}
     /\ \E i \in 1..Len(call.flags) : call.flags[i] = Vacuum)
    => \A i \in 1..Len(decoded) :
            decoded[i].decoder \in FormDecoders => IsCleaned(decoded[i].vals, call.vals)

C2_Witness ==
    /\ Done("Body")
    /\ call.flags = <<1, Vacuum>>
    /\ DOMAIN call.vals = {"k", "only-space"}
    /\ call.vals["k"] = <<<<" ">>, <<" ", "a">>>>
    /\ Len(decoded) = 1
    /\ DOMAIN decoded[1].vals = {"k"}
    /\ decoded[1].vals["k"] = <<<<"a">>>>

(***************************************************************************)
(* Path.                                                                   *)
(***************************************************************************)
IsStructPtr(val) == val.kind = "Ptr" /\ ~val.isNil /\ val.elem.kind = "Struct"

Tagged(f) == ~f.Anonymous /\ f.Tag # "" /\ f.Tag # "-"

\* what setField gives for the tagged field f
Bind(pvf, f) == setField(f.val.kind, pvf.fn[f.Tag], f.val)

\* the traversal of val meets a tagged field that cannot be bound
RECURSIVE MeetsFailingField(_, _)
MeetsFailingField(pvf, val) ==
    IF val.kind = "Ptr"
    THEN ~val.isNil /\ MeetsFailingField(pvf, val.elem)
    ELSE /\ val.kind = "Struct"
         /\ \E i \in 1..Len(val.fields) :
                IF val.fields[i].Anonymous
                THEN MeetsFailingField(pvf, val.fields[i].val)
                ELSE Tagged(val.fields[i]) /\ Bind(pvf, val.fields[i]).err # Nil

\* C3, as claimed: with PathValueFunc set and a non-nil struct pointer as
\* destination, Path returns an error whenever a path-tagged field that cannot
\* be bound is declared in the destination struct or in an embedded struct at
\* any depth.
C3_FailingFieldIsReported ==
    (/\ Done("Path")
     /\ ~PathValueFunc.isNil
     /\ IsStructPtr(call.v)
     /\ MeetsFailingField(PathValueFunc, call.v))
    => err # Nil

\* C4, as claimed: with PathValueFunc set, Path returns an error unless the
\* destination is a non-nil pointer to a struct.
C4_OnlyStructPointersAccepted ==
    (Done("Path") /\ ~PathValueFunc.isNil /\ ~IsStructPtr(call.v)) => err # Nil

\* before and after are a value before and after Path; embedded says that the
\* value is, or is inside, an embedded struct.  Every path-tagged field of an
\* embedded struct held by value or by a non-nil pointer that can be bound
\* holds the bound value, and an embedded nil pointer is still nil.
RECURSIVE EmbeddedFieldsBound(_, _, _, _)
EmbeddedFieldsBound(pvf, before, after, embedded) ==
    IF before.kind = "Ptr"
    THEN IF before.isNil THEN after.isNil
         ELSE EmbeddedFieldsBound(pvf, before.elem, after.elem, embedded)
    ELSE before.kind = "Struct" =>
            \A i \in 1..Len(before.fields) :
                IF before.fields[i].Anonymous
                THEN EmbeddedFieldsBound(pvf, before.fields[i].val,
                                         after.fields[i].val, TRUE)
                ELSE (embedded /\ Tagged(before.fields[i])
                        /\ Bind(pvf, before.fields[i]).err = Nil)
                     => after.fields[i].val = Bind(pvf, before.fields[i]).field

\* C6, as claimed: when Path returns no error, each path-tagged field of an
\* embedded struct held by value or by a non-nil pointer has received the value
\* PathValueFunc returns for its tag, and an embedded nil pointer is still nil.
C6_EmbeddedStructsBound ==
    (Done("Path") /\ ~PathValueFunc.isNil /\ IsStructPtr(call.v) /\ err = Nil)
    => EmbeddedFieldsBound(PathValueFunc, call.v.elem, v.elem, FALSE)

IsScalarPtr(val) == val.kind = "Ptr" /\ val.elem.kind \in ScalarKinds

\* every path-tagged field whose type is a pointer to a scalar, in the struct
\* or in its embedded structs, is not nil and points to the bound value
RECURSIVE PointerFieldsSet(_, _, _)
PointerFieldsSet(pvf, before, after) ==
    IF before.kind = "Ptr"
    THEN before.isNil \/ PointerFieldsSet(pvf, before.elem, after.elem)
    ELSE before.kind = "Struct" =>
            \A i \in 1..Len(before.fields) :
                IF before.fields[i].Anonymous
                THEN PointerFieldsSet(pvf, before.fields[i].val, after.fields[i].val)
                ELSE (Tagged(before.fields[i]) /\ IsScalarPtr(before.fields[i].val))
                     => /\ ~after.fields[i].val.isNil
                        /\ after.fields[i].val.elem =
                              setField(before.fields[i].val.elem.kind,
                                       pvf.fn[before.fields[i].Tag],
                                       before.fields[i].val.elem).field

\* C7, as claimed: after a Path that returns no error, a path-tagged field
\* whose type is a pointer to a scalar is never nil: it points to the converted
\* path value, in the value it pointed to before or in a new one.
C7_PointerFieldsNeverNil ==
    (Done("Path") /\ ~PathValueFunc.isNil /\ IsStructPtr(call.v) /\ err = Nil)
    => PointerFieldsSet(PathValueFunc, call.v.elem, v.elem)

\* the first field of fields that is tagged and cannot be bound, 0 if none
FirstFailing(pvf, fields) ==
    LET failing == {i \in 1..Len(fields) :
                        Tagged(fields[i]) /\ Bind(pvf, fields[i]).err # Nil}
    IN  IF failing = {} THEN 0
        ELSE CHOOSE i \in failing : \A j \in failing : i <= j

\* C9: when Path returns the error raised at field k of the destination
\* struct, field k and the fields declared after it hold the values they had
\* before the call (a nil pointer is still nil), PathValueFunc was last called
\* for field k, and the fields declared before k keep the values bound.
C9_ErrorLeavesRestUntouched ==
    (Done("Path") /\ err \notin {Nil, "PathValueFunc not set", "InvalidDecoderError"})
    => LET before == call.v.elem.fields
           after == v.elem.fields
           k == FirstFailing(PathValueFunc, before)
       IN  /\ k # 0
           /\ err = Bind(PathValueFunc, before[k]).err
           /\ \A j \in k..Len(before) : after[j] = before[j]
           /\ pathCalls # <<>> /\ pathCalls[Len(pathCalls)] = before[k].Tag
           /\ pathCalls = Path(PathValueFunc, PtrTo(Struct(SubSeq(before, 1, k)))).calls
           /\ \A j \in 1..(k - 1) :
                after[j].val =
                    IF before[j].Anonymous THEN setPath(PathValueFunc, before[j].val).val
                    ELSE IF Tagged(before[j]) THEN Bind(PathValueFunc, before[j]).field
                    ELSE before[j].val

C9_Witness ==
    /\ Done("Path")
    /\ err = "ErrSyntax"
    /\ Len(call.v.elem.fields) = 3
    /\ call.v.elem.fields[1].val.kind = "Int"
    /\ v.elem.fields[1].val.num = 123
    /\ call.v.elem.fields[2].val.kind = "Ptr"
    /\ v.elem.fields[2].val.isNil
    /\ Tagged(call.v.elem.fields[3])
    /\ v.elem.fields[3] = call.v.elem.fields[3]
    /\ pathCalls = <<"id", "n">>

=============================================================================
